---- MODULE Spec2Model ----
(***************************************************************************)
(* A model of the Arkanoid game orchestration (arkanoid/game.py) and of    *)
(* the Brick sprite (arkanoid/sprites/brick.py).                           *)
(*                                                                         *)
(* One iteration of Arkanoid.main_loop is one action, Frame.  The classes  *)
(* Ball, Paddle and Round are imported by game.py but are not part of the  *)
(* sources at hand; their operations are modelled from the design          *)
(* document (sections 3, 4.1 - 4.5) and are marked as such.                *)
(*                                                                         *)
(* Spec is the program.  RegistrySpec, BrickSpec and PaddleSpec exercise   *)
(* the ball's registry, the Brick class and the event handling on their    *)
(* own, with calls the frame loop itself never makes.                      *)
(*                                                                         *)
(* Units: time in milliseconds; ball speed in hundredths of a pixel per    *)
(* frame; angles in hundredths of a radian; positions in grid cells (the   *)
(* paddle moves one cell per frame, the ball one cell per axis per frame). *)
(***************************************************************************)
EXTENDS Integers, Sequences, FiniteSets, TLC

(***************************************************************************)
(* Program constants (game.py).                                            *)
(***************************************************************************)
BALL_START_ANGLE_RAD == 500
BALL_BASE_SPEED == 800
BALL_MAX_SPEED == 1500
BALL_SPEED_NORMALISATION_RATE == 2
BRICK_SPEED_ADJUST == 50
WALL_SPEED_ADJUST == 20
DEFAULT_LIVES == 3
\* The elapsed-time thresholds of GameStartSequence.update.
CAPTION_AFTER == 1000
READY_AFTER == 3000
SPRITES_AFTER == 3500
RELEASE_AFTER == 5500

(***************************************************************************)
(* Bounds of the model.                                                    *)
(***************************************************************************)
\* The clock is followed up to MaxClock and then stays there.
MaxClock == 7000
\* The number of frames of play followed after the start sequence has ended.
MaxFrames == 30
\* The number of Round instances a game creates.
MaxRounds == 2
\* How far below the screen the ball is followed.
MaxFall == 1
\* The saturation value of the history counters.
MaxCount == 3
\* The most the clock advances between the first and the last clock read of
\* one GameStartSequence.update.
MaxDrift == 1

\* The time one clock.tick(GAME_SPEED) may take, and the time that may pass
\* between two clock reads of one GameStartSequence.update.
FrameDeltas == {500, 1000}
ReadDeltas == {0, 500}

Min(a, b) == IF a < b THEN a ELSE b
Max(a, b) == IF a > b THEN a ELSE b
Sat(n) == Min(n, MaxCount)

(***************************************************************************)
(* The playing field: a grid of ScreenW x ScreenH cells.                   *)
(***************************************************************************)
ScreenW == 6
ScreenH == 6
PaddleRow == 4
PaddleStartX == 1
PaddleSize == [w |-> 3, h |-> 1]
BallSize == [w |-> 2, h |-> 1]
EdgeWidth == 1

Rect(x, y, w, h) == [x |-> x, y |-> y, w |-> w, h |-> h]

\* pygame.Rect.colliderect
Intersects(a, b) ==
    /\ a.x < b.x + b.w
    /\ b.x < a.x + a.w
    /\ a.y < b.y + b.h
    /\ b.y < a.y + a.h

(***************************************************************************)
(* Objects.  An object reference is [kind, round, idx]: the edges and the  *)
(* bricks belong to a Round instance, the paddle to the game.              *)
(***************************************************************************)
PaddleObj == [kind |-> "paddle", round |-> 0, idx |-> 0]
EdgeObj(r, i) == [kind |-> "edge", round |-> r, idx |-> i]
BrickObj(r, i) == [kind |-> "brick", round |-> r, idx |-> i]

\* Round.edges: top, left, right.
NumEdges == 3
EdgeRect(i) ==
    CASE i = 1 -> Rect(0, 0, ScreenW, EdgeWidth)
      [] i = 2 -> Rect(0, 0, EdgeWidth, ScreenH)
      [] OTHER -> Rect(ScreenW - EdgeWidth, 0, EdgeWidth, ScreenH)

\* The bricks of the round classes: Brick(colour, value, destroy_after) at a
\* cell.  The next_round of the last class is the first one.
RoundLayouts ==
    << << [x |-> 2, y |-> 1, value |-> 50, destroy_after |-> 1],
          [x |-> 3, y |-> 1, value |-> 70, destroy_after |-> 2] >>,
       << [x |-> 1, y |-> 1, value |-> 50, destroy_after |-> 1],
          [x |-> 2, y |-> 1, value |-> 70, destroy_after |-> 2] >> >>
NumBricks == 2
RoundLayout(no) == RoundLayouts[((no - 1) % Len(RoundLayouts)) + 1]

AllBricks == {BrickObj(r, i) : r \in 1..(MaxRounds + 1), i \in 1..NumBricks}

\* The images of a brick: 0 is its own image 'brick_<colour>', 1..AnimFrames
\* are the frames load_png_sequence returns for the shimmering animation.
AnimFrames == 2
\* Brick._image_sequence: the frames, then the brick's own image.
ImageSequence == [i \in 1..(AnimFrames + 1) |-> IF i <= AnimFrames THEN i ELSE 0]

\* Brick.__init__.  _animation is None (set = FALSE) or an iterator over the
\* image sequence that has yielded pos images; _animate is False, True or
\* None.
BrickInit(o) ==
    [value |-> RoundLayout(o.round)[o.idx].value,
     destroy_after |-> RoundLayout(o.round)[o.idx].destroy_after,
     collision_count |-> 0,
     image |-> 0,
     animation |-> [set |-> FALSE, pos |-> 0],
     animate |-> "False"]

\* A variant that counts a brick as visible up to and including the
\* destroy_after-th collision.
BrickVisibleInclusive(b) == b.collision_count <= b.destroy_after

\* Brick.visible
BrickVisible(b) == b.collision_count < b.destroy_after

\* Brick.animate
BrickAnimate(b) == [b EXCEPT !.animate = "True"]

\* Brick.update.  An iterator object is true whether or not it is exhausted,
\* so a new one is only made while _animation is None; next() of an
\* exhausted iterator raises StopIteration.
BrickUpdate(b) ==
    IF b.animate # "True" THEN b
    ELSE LET a == IF ~b.animation.set THEN [set |-> TRUE, pos |-> 0]
                  ELSE b.animation
         IN IF a.pos < Len(ImageSequence)
            THEN [b EXCEPT !.animation = [a EXCEPT !.pos = @ + 1],
                           !.image = ImageSequence[a.pos + 1]]
            ELSE [b EXCEPT !.animation = a, !.animate = "None"]

VARIABLES
    now,        \* pygame.time.get_ticks()
    running,    \* main_loop's flag
    game,       \* Arkanoid._game: created or not, and the Game's score, lives, over
    sequence,   \* the GameStartSequence, and whether Game.sequence refers to it
    paddle,     \* Game.paddle
    ball,       \* Game.ball, with its registry of collidable objects
    round,      \* Game.round
    bricks,     \* the Brick objects, by reference
    life_rects, \* Game._life_rects
    hist        \* history of the run, for stating the properties

vars == << now, running, game, sequence, paddle, ball, round, bricks,
           life_rects, hist >>

(***************************************************************************)
(* Ball (arkanoid.sprites.Ball), from the design document, section 4.2.    *)
(***************************************************************************)
BallRect(b) == Rect(b.x, b.y, BallSize.w, BallSize.h)
PaddleRect(p) == Rect(p.x, PaddleRow, PaddleSize.w, PaddleSize.h)
BrickRect(o) == Rect(RoundLayout(o.round)[o.idx].x, RoundLayout(o.round)[o.idx].y, 1, 1)

ObjRect(w, o) ==
    CASE o.kind = "paddle" -> PaddleRect(w.paddle)
      [] o.kind = "edge" -> EdgeRect(o.idx)
      [] OTHER -> BrickRect(o)

\* Whether a registered object is still visible / live.
ObjLive(w, o) ==
    CASE o.kind = "paddle" -> w.paddle.visible
      [] o.kind = "edge" -> TRUE
      [] OTHER -> BrickVisible(w.bricks[o])

\* The direction of travel along each axis: the signs of cos and sin of the
\* angle (the y axis points down the screen).
DirX(a) == IF a < 157 \/ a > 471 THEN 1 ELSE IF a = 157 \/ a = 471 THEN 0 ELSE -1
DirY(a) == IF a > 0 /\ a < 314 THEN 1 ELSE IF a = 0 \/ a = 314 THEN 0 ELSE -1

\* Default reflection: a horizontal surface negates the vertical component,
\* a vertical surface the horizontal one.
FlipY(a) == (628 - a) % 628
FlipX(a) == (314 + 628 - a) % 628

\* Edge-of-impact classification from the rectangle the ball came from
\* (prev) and the one it moved to (cur): a side of the object was struck if
\* undoing the horizontal move alone clears the overlap, its top or bottom
\* if undoing the vertical move alone does.
Reflect(a, prev, cur, r) ==
    IF ~Intersects(Rect(prev.x, cur.y, cur.w, cur.h), r) THEN FlipX(a)
    ELSE IF ~Intersects(Rect(cur.x, prev.y, cur.w, cur.h), r) THEN FlipY(a)
    ELSE FlipX(FlipY(a))

\* Paddle.bounce_strategy (section 4.3): the angle is a function of where
\* along the paddle the ball struck.
PaddleBounce(b, p) ==
    LET bc == 2 * b.x + BallSize.w
        pc == 2 * p.x + PaddleSize.w
    IN IF bc < pc THEN 393 ELSE IF bc = pc THEN 471 ELSE 550

Clamp(v, lo, hi) == Max(lo, Min(v, hi))

\* Ball.__init__
BallNew(pos) ==
    [x |-> pos.x, y |-> pos.y,
     angle |-> BALL_START_ANGLE_RAD,
     speed |-> BALL_BASE_SPEED,
     visible |-> TRUE,
     anchor |-> [set |-> FALSE, dx |-> 0, dy |-> 0],
     registry |-> << >>]

\* Ball.add_collidable_object
AddCollidable(b, obj, speed_adjust, bounce, on_collide) ==
    [b EXCEPT !.registry = Append(@,
        [obj |-> obj, speed_adjust |-> speed_adjust,
         bounce |-> bounce, on_collide |-> on_collide])]

\* Ball.remove_collidable_object: no-op if absent.
RemoveCollidable(b, obj) ==
    [b EXCEPT !.registry = SelectSeq(@, LAMBDA e : e.obj # obj)]

\* Ball.remove_all_collidable_objects
RemoveAllCollidables(b) == [b EXCEPT !.registry = << >>]

\* Ball.anchor: the paddle is the only object the game anchors the ball to.
BallAnchor(b, dx, dy) ==
    [b EXCEPT !.anchor = [set |-> TRUE, dx |-> dx, dy |-> dy]]

\* Ball.release
BallRelease(b, angle) ==
    [b EXCEPT !.anchor = [set |-> FALSE, dx |-> 0, dy |-> 0],
              !.angle = angle,
              !.speed = BALL_BASE_SPEED]

\* Speed normalisation: toward base speed, never overshooting it.
Normalise(s) ==
    IF s > BALL_BASE_SPEED
    THEN Max(BALL_BASE_SPEED, s - BALL_SPEED_NORMALISATION_RATE)
    ELSE Min(BALL_BASE_SPEED, s + BALL_SPEED_NORMALISATION_RATE)

\* Whether the ball's rectangle lies wholly outside the screen.
IsOffScreen(b) ==
    ~Intersects(BallRect(b), Rect(0, 0, ScreenW, ScreenH))

\* The ball is followed MaxFall cells beyond the screen.
MoveBall(b) ==
    [b EXCEPT
       !.x = Clamp(b.x + DirX(b.angle), 0 - BallSize.w - MaxFall, ScreenW + MaxFall),
       !.y = Clamp(b.y + DirY(b.angle), 0 - BallSize.h - MaxFall, ScreenH + MaxFall)]

(***************************************************************************)
(* Paddle (arkanoid.sprites.Paddle), from the design document, 4.4.        *)
(***************************************************************************)
PaddleNew ==
    [x |-> PaddleStartX, dir |-> 0, visible |-> TRUE]
MoveLeft(p) == [p EXCEPT !.dir = -1]
MoveRight(p) == [p EXCEPT !.dir = 1]
Stop(p) == [p EXCEPT !.dir = 0]
\* left_offset and right_offset are the width of the side edge.
PaddleUpdate(p) ==
    [p EXCEPT !.x = Clamp(p.x + p.dir, EdgeWidth,
                          ScreenW - EdgeWidth - PaddleSize.w)]

(***************************************************************************)
(* Round (arkanoid.rounds), from the design document, 4.5.                 *)
(***************************************************************************)
RoundNew(no) == [no |-> no, remaining |-> NumBricks, complete |-> FALSE]
BrickDestroyed(r) ==
    [r EXCEPT !.remaining = Max(@ - 1, 0),
              !.complete = (r.remaining <= 1)]

(***************************************************************************)
(* History: what the current frame did (reset at the start of each frame)  *)
(* and saturating counts over the run.                                     *)
(***************************************************************************)
HistInit ==
    [log |-> << >>,          \* the steps of the current frame, in order
     elapsed |-> 0,          \* time since the sequence began, at game.update
     reads |-> << >>,        \* the elapsed times the sequence's update read
     steps |-> {},           \* the steps that update took
     stage |-> 0,            \* how many steps the sequence's last update took
     released |-> 0,         \* calls of ball.release
     released_with |-> << >>,\* the ball's angle and speed after the last one
     populated |-> << >>,    \* the registry as _new_round left it this frame
     dir_at_update |-> 0,    \* the paddle's direction when paddle.update ran
     late_updates |-> 0,     \* sequence updates after it deactivated
     callbacks |-> << >>,    \* bricks passed to on_collide this frame
     overlapped |-> << >>,   \* registered objects the ball overlapped
     resolved |-> << >>,     \* objects whose collision was resolved
     hits |-> [b \in AllBricks |-> 0],      \* resolved collisions per brick
     destroyed |-> [b \in AllBricks |-> 0], \* brick_destroyed calls per brick
     off_screen |-> 0,       \* off-screen callbacks this frame
     was_off |-> FALSE,      \* the ball was off screen before this frame
     moved |-> FALSE,        \* ball.update moved the ball this frame
     speed_before |-> 0,     \* the ball's speed when that update began
     speed_hit |-> 0,        \* and after the collision handling, if any
     paddle_at_ball |-> 0,   \* the paddle's x when ball.update ran
     quit |-> FALSE,         \* a quit event has been received
     handled |-> << >>,      \* the event list _handle_events was given
     animations |-> [b \in AllBricks |-> 0], \* calls of animate per brick
     shown |-> [b \in AllBricks |-> << >>],  \* images set since such a call
     frames |-> 0,           \* frames run since the sequence ended
     error |-> FALSE]        \* an exception left the loop

Log(w, step) == [w EXCEPT !.hist.log = Append(@, step)]

(***************************************************************************)
(* Game (game.py).  The operators take the objects of the program as one   *)
(* record w and return it as the code leaves it.                           *)
(***************************************************************************)
\* A variant that clears the registry instead of removing the brick.
OnBrickCollideClear(w, brick) ==
    [w EXCEPT !.ball = RemoveAllCollidables(@),
              !.round = BrickDestroyed(@),
              !.hist.callbacks = Append(@, brick),
              !.hist.destroyed[brick] = Sat(@ + 1)]

\* Game._on_brick_collide
OnBrickCollide(w, brick) ==
    [w EXCEPT !.ball = RemoveCollidable(@, brick),
              !.round = BrickDestroyed(@),
              !.hist.callbacks = Append(@, brick),
              !.hist.destroyed[brick] = Sat(@ + 1)]

\* A variant that takes a life, and ends the game with the last one.
OffScreenLoseLife(w) ==
    [w EXCEPT !.game.lives = Max(@ - 1, 0),
              !.game.over = (w.game.lives <= 1),
              !.hist.off_screen = Sat(@ + 1)]

\* Game._off_screen: the body is commented out.
OffScreen(w) ==
    [w EXCEPT !.hist.off_screen = Sat(@ + 1)]

\* The on_collide callback of a registry entry.
OnCollide(w, e) ==
    IF e.on_collide = "_on_brick_collide" THEN OnBrickCollide(w, e.obj) ELSE w

\* Ball.update resolving the collision with registry entry e.
Resolve(w, e, prev) ==
    LET angle == IF e.bounce = "paddle"
                 THEN PaddleBounce(w.ball, w.paddle)
                 ELSE Reflect(w.ball.angle, prev, BallRect(w.ball), ObjRect(w, e.obj))
        w1 == [w EXCEPT
                 !.ball.angle = angle,
                 !.ball.speed = Clamp(@ + e.speed_adjust, 0, BALL_MAX_SPEED),
                 !.hist.resolved = Append(@, e.obj),
                 !.hist.speed_hit =
                     Clamp(w.ball.speed + e.speed_adjust, 0, BALL_MAX_SPEED),
                 !.hist.hits = IF e.obj.kind = "brick"
                               THEN [@ EXCEPT ![e.obj] = Sat(@ + 1)] ELSE @]
    IN OnCollide(w1, e)

\* The registry entries Ball.update resolves: the first one found.
ToResolve(over) == IF over = << >> THEN << >> ELSE << over[1] >>

RECURSIVE ResolveAll(_, _, _)
ResolveAll(w, es, prev) ==
    IF es = << >> THEN w
    ELSE ResolveAll(Resolve(w, Head(es), prev), Tail(es), prev)

\* Ball.update
BallUpdate(w) ==
    LET b == w.ball
        wl == [w EXCEPT !.hist.paddle_at_ball = w.paddle.x,
                        !.hist.was_off = IsOffScreen(b)]
    IN
    IF b.anchor.set
    THEN [wl EXCEPT !.ball.x = w.paddle.x + b.anchor.dx,
                    !.ball.y = PaddleRow + b.anchor.dy]
    ELSE
      LET prev == BallRect(b)
          m == MoveBall(b)
          over == SelectSeq(b.registry,
                    LAMBDA e : /\ ObjLive(w, e.obj)
                               /\ Intersects(BallRect(m), ObjRect(w, e.obj)))
          w1 == [wl EXCEPT !.ball = m,
                           !.hist.moved = TRUE,
                           !.hist.speed_before = b.speed,
                           !.hist.speed_hit = b.speed,
                           !.hist.overlapped = [i \in DOMAIN over |-> over[i].obj]]
          w2 == ResolveAll(w1, ToResolve(over), prev)
          w3 == [w2 EXCEPT !.ball.speed = Normalise(@)]
      IN IF IsOffScreen(w3.ball) THEN OffScreen(w3) ELSE w3

RECURSIVE AddAll(_, _, _, _, _)
AddAll(b, objs, speed_adjust, bounce, on_collide) ==
    IF objs = << >> THEN b
    ELSE AddAll(AddCollidable(b, Head(objs), speed_adjust, bounce, on_collide),
                Tail(objs), speed_adjust, bounce, on_collide)

RoundEdges(no) == [i \in 1..NumEdges |-> EdgeObj(no, i)]
RoundBricks(no) == [i \in 1..NumBricks |-> BrickObj(no, i)]

\* A variant that does not clear the registry first.
PopulateKeep(b, no) ==
    LET b2 == AddAll(b, RoundEdges(no), WALL_SPEED_ADJUST, "default", "None")
        b3 == AddCollidable(b2, PaddleObj, 0, "paddle", "None")
    IN AddAll(b3, RoundBricks(no), BRICK_SPEED_ADJUST, "default",
              "_on_brick_collide")

\* A variant that registers the bricks before the edges and the paddle.
PopulateBricksFirst(b, no) ==
    LET b1 == RemoveAllCollidables(b)
        b2 == AddAll(b1, RoundBricks(no), BRICK_SPEED_ADJUST, "default",
                     "_on_brick_collide")
        b3 == AddAll(b2, RoundEdges(no), WALL_SPEED_ADJUST, "default", "None")
    IN AddCollidable(b3, PaddleObj, 0, "paddle", "None")

\* A variant that registers the bricks without a speed adjustment.
PopulateNoAdjust(b, no) ==
    LET b1 == RemoveAllCollidables(b)
        b2 == AddAll(b1, RoundEdges(no), WALL_SPEED_ADJUST, "default", "None")
        b3 == AddCollidable(b2, PaddleObj, 0, "paddle", "None")
    IN AddAll(b3, RoundBricks(no), 0, "default", "_on_brick_collide")

\* Game._new_round, the re-population of the ball's registry.
Populate(b, no) ==
    LET b1 == RemoveAllCollidables(b)
        b2 == AddAll(b1, RoundEdges(no), WALL_SPEED_ADJUST, "default", "None")
        b3 == AddCollidable(b2, PaddleObj, 0, "paddle", "None")
        b4 == AddAll(b3, RoundBricks(no), BRICK_SPEED_ADJUST, "default",
                     "_on_brick_collide")
    IN b4

\* Game._new_round, with the assignment of its result to Game.round.
NewRound(w, no) ==
    LET b == Populate(w.ball, no)
    IN [w EXCEPT !.round = RoundNew(no),
                 !.bricks = [o \in AllBricks |->
                               IF o.round = no THEN BrickInit(o) ELSE @[o]],
                 !.ball = b,
                 !.hist.populated = [i \in DOMAIN b.registry |-> b.registry[i].obj]]

\* A variant that anchors the ball but does not hide the sprites.
SeqNewVisible(w, t) ==
    [w EXCEPT !.sequence = [set |-> TRUE, start_time |-> t, restart |-> FALSE],
              !.ball = BallAnchor(@, PaddleSize.w \div 2, 0 - PaddleSize.h)]

\* GameStartSequence.__init__
SeqNew(w, t) ==
    [w EXCEPT !.sequence = [set |-> TRUE, start_time |-> t, restart |-> FALSE],
              !.paddle.visible = FALSE,
              !.ball = BallAnchor([@ EXCEPT !.visible = FALSE],
                                  PaddleSize.w \div 2, 0 - PaddleSize.h)]

\* Variants of the comparison: half a second late, inclusive, and with the
\* operands of the subtraction in _time_elapsed exchanged.
PastLate(elapsed, threshold) == elapsed > threshold + 500
PastInclusive(elapsed, threshold) == elapsed >= threshold
PastReversed(elapsed, threshold) == (0 - elapsed) > threshold

\* The comparisons of GameStartSequence.update.
Past(elapsed, threshold) == elapsed > threshold

\* GameStartSequence.update; reads are the clock values its four calls of
\* _time_elapsed see.
SeqUpdate(w, reads) ==
    LET el == [i \in 1..4 |-> reads[i] - w.sequence.start_time]
        caption == Past(el[1], CAPTION_AFTER)
        ready == Past(el[2], READY_AFTER)
        sprites == Past(el[3], SPRITES_AFTER)
        release == Past(el[4], RELEASE_AFTER)
        steps == (IF caption THEN {"caption"} ELSE {})
                 \cup (IF ready THEN {"ready"} ELSE {})
                 \cup (IF sprites THEN {"sprites"} ELSE {})
                 \cup (IF release THEN {"release"} ELSE {})
        w1 == [w EXCEPT
                 !.hist.reads = el,
                 !.hist.steps = steps,
                 !.hist.stage = Cardinality(steps),
                 !.hist.late_updates =
                     IF w.sequence.set THEN @ ELSE Sat(@ + 1),
                 !.hist.log = Append(@, "sequence.update")]
        w2 == IF sprites
              THEN [w1 EXCEPT !.paddle.visible = TRUE, !.ball.visible = TRUE]
              ELSE w1
    IN IF ~release THEN w2
       ELSE IF ~caption
       THEN \* the local variable caption is unbound: UnboundLocalError
            [w2 EXCEPT !.hist.error = TRUE]
       ELSE LET b == BallRelease(w2.ball, BALL_START_ANGLE_RAD)
            IN [w2 EXCEPT !.ball = b,
                          !.hist.released = Sat(@ + 1),
                          !.hist.released_with = << b.angle, b.speed >>,
                          !.sequence.set = FALSE]

\* A variant in which a key-up only stops the paddle if it is moving in
\* that key's direction.
HandleEventHeld(p, e) ==
    CASE e = "KEYDOWN_LEFT" -> MoveLeft(p)
      [] e = "KEYDOWN_RIGHT" -> MoveRight(p)
      [] e = "KEYUP_LEFT" /\ p.dir = -1 -> Stop(p)
      [] e = "KEYUP_RIGHT" /\ p.dir = 1 -> Stop(p)
      [] OTHER -> p

\* Game._handle_events
HandleEvent(p, e) ==
    CASE e = "KEYDOWN_LEFT" -> MoveLeft(p)
      [] e = "KEYDOWN_RIGHT" -> MoveRight(p)
      [] e \in {"KEYUP_LEFT", "KEYUP_RIGHT"} -> Stop(p)
      [] OTHER -> p

RECURSIVE HandleEventList(_, _)
HandleEventList(p, events) ==
    IF events = << >> THEN p
    ELSE HandleEventList(HandleEvent(p, Head(events)), Tail(events))

HandleEvents(w, events) ==
    Log([w EXCEPT !.paddle = HandleEventList(@, events)], "handle_events")

\* A variant that updates the ball before the paddle.
UpdateSpritesSwapped(w) ==
    LET w1 == Log(BallUpdate(w), "ball.update")
    IN Log([w1 EXCEPT !.paddle = PaddleUpdate(@),
                      !.hist.dir_at_update = w1.paddle.dir],
           "paddle.update")

\* Game._update_sprites
UpdateSprites(w) ==
    LET w1 == Log([w EXCEPT !.paddle = PaddleUpdate(@),
                            !.hist.dir_at_update = w.paddle.dir],
                  "paddle.update")
    IN Log(BallUpdate(w1), "ball.update")

\* Game._update_lives: the recorded rectangles are erased and cleared, then
\* lives - 1 icons are drawn, 10 apart.
LifeRect(i) == EdgeWidth + (i - 1) * (1 + 10)
\* A variant that does not clear the recorded rectangles first.
UpdateLivesAppend(w) ==
    Log([w EXCEPT !.life_rects =
            @ \o [i \in 1..(w.game.lives - 1) |-> LifeRect(i)]],
        "update_lives")
UpdateLives(w) ==
    Log([w EXCEPT !.life_rects = [i \in 1..(w.game.lives - 1) |-> LifeRect(i)]],
        "update_lives")

\* A variant that delegates to the sequence whether or not it is set.
SequenceSetAlways(w) == TRUE

\* The test "if self.sequence" of Game.update.
SequenceSet(w) == w.sequence.set

\* Game.update
GameUpdate(w, events, reads) ==
    LET w1 == IF w.round.complete THEN NewRound(w, w.round.no + 1) ELSE w
        w2 == IF SequenceSet(w1) THEN SeqUpdate(w1, reads) ELSE w1
        w3 == HandleEvents(w2, events)
        w4 == UpdateSprites(w3)
        w5 == UpdateLives(w4)
    IN IF w2.hist.error THEN w2 ELSE w5

\* Game.__init__ at clock value t.
GameNew(w, t) ==
    LET p == PaddleNew
        w1 == [w EXCEPT
                 !.game = [created |-> TRUE, score |-> 0,
                           lives |-> DEFAULT_LIVES, over |-> FALSE],
                 !.paddle = p,
                 !.ball = BallNew([x |-> p.x + PaddleSize.w \div 2, y |-> PaddleRow]),
                 !.life_rects = << >>]
        w2 == NewRound(w1, 1)
    IN SeqNew(w2, t)

(***************************************************************************)
(* Arkanoid.main_loop: one iteration is the action Frame.                  *)
(***************************************************************************)
Events == {"QUIT", "KEYDOWN_LEFT", "KEYDOWN_RIGHT", "KEYUP_LEFT", "KEYUP_RIGHT"}
EventLists ==
    {<< >>} \cup {<< e >> : e \in Events}
            \cup {<< e, f >> : e \in Events, f \in Events}

\* The advances of the clock before the 2nd, 3rd and 4th read of an update.
Drifts == {j \in [1..3 -> ReadDeltas] : j[1] + j[2] + j[3] <= MaxDrift * 500}
Reads(t, j) ==
    << t, t + j[1], t + j[1] + j[2], t + j[1] + j[2] + j[3] >>

World ==
    [game |-> game, sequence |-> sequence, paddle |-> paddle, ball |-> ball,
     round |-> round, bricks |-> bricks, life_rects |-> life_rects,
     hist |-> hist]

\* A variant that never leaves the loop.
LoopConditionAlways == TRUE

\* The loop's test "while running".
LoopCondition == running

\* The per-frame part of the history starts empty.
FrameStart(w) ==
    [w EXCEPT !.hist.log = << >>, !.hist.steps = {}, !.hist.reads = << >>,
              !.hist.populated = << >>,
              !.hist.callbacks = << >>, !.hist.overlapped = << >>,
              !.hist.resolved = << >>, !.hist.off_screen = 0,
              !.hist.moved = FALSE, !.hist.speed_before = 0,
              !.hist.speed_hit = 0]

\* Whether the loop goes on after this frame's event list and game.update.
StillRunning(events, over) ==
    /\ \A i \in DOMAIN events : events[i] # "QUIT"
    /\ ~over

\* One iteration of the loop body on the objects w, the clock reading t
\* after clock.tick.
LoopBody(w, events, t, j) ==
    LET w0 == FrameStart(w)
        w1 == IF ~w.game.created THEN GameNew(w0, t) ELSE w0
        w2 == GameUpdate([w1 EXCEPT !.hist.elapsed = t - w1.sequence.start_time],
                         events, Reads(t, j))
        w3 == IF w2.hist.error THEN w2 ELSE Log(w2, "flip")
    IN [w3 EXCEPT !.hist.quit =
                     @ \/ \E i \in DOMAIN events : events[i] = "QUIT",
                  !.hist.frames = IF w1.sequence.set THEN @ ELSE @ + 1]

\* The clock after the frame: the sequence's update read it last.
ClockAfter(w, t, j) ==
    IF ~w.game.created \/ w.sequence.set THEN Min(Reads(t, j)[4], MaxClock) ELSE t

\* The loop body can run: the loop has not ended (by its flag or by an
\* exception) and the bounds of the model are not exhausted.
CanRunFrame ==
    /\ LoopCondition
    /\ ~hist.error
    /\ ~(game.created /\ round.complete /\ round.no >= MaxRounds)
    /\ hist.frames < MaxFrames

Frame(events, d, j) ==
    /\ CanRunFrame
    /\ (game.created /\ ~sequence.set) => j = [i \in 1..3 |-> 0]
    /\ \E t \in {Min(now + d, MaxClock)} :
       \E w4 \in {LoopBody(World, events, t, j)} :
          /\ now' = ClockAfter(World, t, j)
          /\ running' = StillRunning(events, w4.game.over)
          /\ game' = w4.game
          /\ sequence' = w4.sequence
          /\ paddle' = w4.paddle
          /\ ball' = w4.ball
          /\ round' = w4.round
          /\ bricks' = w4.bricks
          /\ life_rects' = w4.life_rects
          /\ hist' = w4.hist

\* Arkanoid.__init__: no game yet.
Init ==
    /\ now = 0
    /\ running = TRUE
    /\ game = [created |-> FALSE, score |-> 0, lives |-> 0, over |-> FALSE]
    /\ sequence = [set |-> FALSE, start_time |-> 0, restart |-> FALSE]
    /\ paddle = PaddleNew
    /\ ball = BallNew([x |-> 0, y |-> 0])
    /\ round = RoundNew(0)
    /\ bricks = [o \in AllBricks |-> BrickInit(o)]
    /\ life_rects = << >>
    /\ hist = HistInit

Next == \E events \in EventLists, d \in FrameDeltas, j \in Drifts :
            Frame(events, d, j)

Spec == Init /\ [][Next]_vars

(***************************************************************************)
(* The properties.                                                         *)
(***************************************************************************)
Registered(o) == \E i \in DOMAIN ball.registry : ball.registry[i].obj = o
Last(q) == q[Len(q)]
FrameSteps ==
    << "handle_events", "paddle.update", "ball.update", "update_lives", "flip" >>

\* C1: the start scenario.  In the frame whose update runs 1500 ms after the
\* sequence began the caption is shown and paddle and ball are invisible; at
\* 4000 ms both are visible; at 6000 ms the sequence is unset and the ball
\* has been released, once, with the start angle and the base speed.
C1_StartScenario ==
    game.created =>
      /\ hist.elapsed = 1500 =>
            "caption" \in hist.steps /\ ~paddle.visible /\ ~ball.visible
      /\ hist.elapsed = 4000 => paddle.visible /\ ball.visible
      /\ hist.elapsed = 6000 =>
            /\ ~sequence.set
            /\ ~ball.anchor.set
            /\ hist.released = 1
            /\ hist.released_with = << BALL_START_ANGLE_RAD, BALL_BASE_SPEED >>

\* The update that runs at 6000 ms is the one that releases the ball.
C1_Witness ==
    /\ hist.elapsed = 6000
    /\ hist.reads # << >>
    /\ "release" \in hist.steps
    /\ hist.released = 1
    /\ ~sequence.set

\* C2 as stated: the thresholds are inclusive, an update takes a stage's step
\* whenever the elapsed time is at least the stage's threshold.
C2_InclusiveThresholds ==
    hist.reads # << >> =>
      /\ hist.reads[1] >= CAPTION_AFTER => "caption" \in hist.steps
      /\ hist.reads[2] >= READY_AFTER => "ready" \in hist.steps
      /\ hist.reads[3] >= SPRITES_AFTER => "sprites" \in hist.steps
      /\ hist.reads[4] >= RELEASE_AFTER => "release" \in hist.steps

\* The thresholds are strict.  An update takes a stage's step
\* exactly if the elapsed time it reads for that stage exceeds the threshold;
\* a later stage's step is only taken together with the earlier ones, the
\* sprites are visible from the sprites stage on, and the number of stages
\* reached never decreases.
C2_StagesOfUpdate ==
    hist.reads # << >> =>
      /\ "caption" \in hist.steps <=> hist.reads[1] > CAPTION_AFTER
      /\ "ready" \in hist.steps <=> hist.reads[2] > READY_AFTER
      /\ "sprites" \in hist.steps <=> hist.reads[3] > SPRITES_AFTER
      /\ "release" \in hist.steps <=> hist.reads[4] > RELEASE_AFTER
      /\ "release" \in hist.steps => "sprites" \in hist.steps
      /\ "sprites" \in hist.steps => "ready" \in hist.steps
      /\ "ready" \in hist.steps => "caption" \in hist.steps
      /\ "sprites" \in hist.steps <=> paddle.visible
      /\ "sprites" \in hist.steps <=> ball.visible
      /\ "release" \in hist.steps <=> ~sequence.set
\* C2, amended: the stages of every update are as above, and the number of
\* stages an update reaches never decreases from one update to the next.
C2_StrictThresholds ==
    [] C2_StagesOfUpdate /\ [][hist'.stage >= hist.stage]_vars

\* An update that runs at exactly 5500 ms does not release the ball.
C2_Witness ==
    /\ hist.reads # << >>
    /\ hist.reads[4] = RELEASE_AFTER
    /\ hist.steps = {"caption", "ready", "sprites"}
    /\ sequence.set

\* C3: the terminal update releases the ball with the start angle and unsets
\* Game.sequence in the same update; the ball is released once, and the
\* sequence is never updated after it has unset itself.
C3_ReleaseOnce ==
    game.created =>
      /\ hist.released <= 1
      /\ hist.late_updates = 0
      /\ sequence.set <=> hist.released = 0
      /\ sequence.set => ball.anchor.set
      /\ "release" \in hist.steps =>
            /\ ~sequence.set
            /\ hist.released_with[1] = BALL_START_ANGLE_RAD
      /\ ~sequence.set => hist.released = 1 /\ ~ball.anchor.set
      /\ (~sequence.set /\ "release" \notin hist.steps) => hist.reads = << >>

\* Frames have run after the sequence unset itself.
C3_Witness ==
    /\ game.created
    /\ ~sequence.set
    /\ hist.released = 1
    /\ hist.frames >= 3
    /\ hist.reads = << >>

\* A step changes a set sequence only by its own terminal update, which
\* unsets it; and every frame advances the clock (up to the model's MaxClock).
NotCancelled ==
    (game.created /\ sequence.set) =>
       \/ sequence' = sequence
       \/ /\ sequence' = [sequence EXCEPT !.set = FALSE]
          /\ "release" \in hist'.steps
          /\ hist'.reads[4] > RELEASE_AFTER
ClockAdvances == now' > now \/ now = MaxClock
\* While the loop runs and a sequence is set another frame can be run, and a
\* frame whose update runs later than 5500 ms leaves the sequence unset.
SequenceEnds ==
    game.created =>
      /\ (sequence.set /\ running) => CanRunFrame
      /\ hist.elapsed > RELEASE_AFTER => ~sequence.set /\ hist.released = 1
\* C4: a started sequence is not cancellable: nothing but its own terminal
\* update unsets or replaces it, whatever the keyboard events and callbacks;
\* and while frames keep running and the clock advances it reaches that
\* update: each frame advances the clock, a frame can always be run, and the
\* first update later than 5500 ms is the terminal one.
C4_NotCancellable ==
    [] SequenceEnds /\ [][NotCancelled /\ ClockAdvances]_vars

\* The paddle was moved by keyboard events while the sequence ran, and the
\* sequence has reached its terminal update.
C4_Witness ==
    /\ game.created
    /\ ~sequence.set
    /\ "release" \in hist.steps
    /\ paddle.x # PaddleStartX
    /\ running

\* C5 as stated: a brick with destroy_after = 2 is visible and registered
\* after its 1st collision, invisible and evicted after its 2nd, and
\* brick_destroyed is called for it once, at the 2nd.
C5_TwoHitBrick ==
    \A b \in AllBricks :
       bricks[b].destroy_after = 2 =>
          /\ hist.hits[b] = 1 =>
                /\ bricks[b].collision_count = 1
                /\ BrickVisible(bricks[b])
                /\ Registered(b)
                /\ hist.destroyed[b] = 0
          /\ hist.hits[b] >= 2 =>
                /\ ~BrickVisible(bricks[b])
                /\ ~Registered(b)
                /\ hist.destroyed[b] = 1
          /\ hist.destroyed[b] <= 1

\* C6: _new_round leaves exactly the new round's edges, the paddle and the
\* new round's bricks in the registry; the registry never holds an object of
\* a replaced round and on_collide is never called with one.
C6_NoStaleReferences ==
    game.created =>
      /\ hist.populated # << >> =>
            hist.populated =
               RoundEdges(round.no) \o << PaddleObj >> \o RoundBricks(round.no)
      /\ \A i \in DOMAIN ball.registry :
            ball.registry[i].obj.kind # "paddle" =>
               ball.registry[i].obj.round = round.no
      /\ \A i \in DOMAIN hist.callbacks : hist.callbacks[i].round = round.no

\* A brick of the second round has been hit.
C6_Witness ==
    /\ round.no = 2
    /\ hist.callbacks # << >>
    /\ hist.populated = << >>

\* C7: the steps of a frame run in a fixed order: the events are applied
\* before paddle.update, paddle.update before ball.update, both before
\* _update_lives, and the flip comes last.
C7_FrameOrder ==
    game.created =>
      /\ hist.log \in {FrameSteps, << "sequence.update" >> \o FrameSteps}
      /\ hist.dir_at_update = paddle.dir
      /\ hist.paddle_at_ball = paddle.x
      /\ ball.anchor.set => ball.x = paddle.x + ball.anchor.dx

\* The paddle moved in a frame in which the ball struck it.
C7_Witness ==
    /\ hist.resolved = << PaddleObj >>
    /\ paddle.dir # 0
    /\ hist.dir_at_update # 0

\* The loop has ended exactly if a quit event has been received or the game
\* is over, and the last frame ran game.update and ended with the flip.
C8_FrameComplete ==
    game.created =>
      /\ ~running <=> (hist.quit \/ game.over)
      /\ \E i \in DOMAIN hist.log : hist.log[i] = "update_lives"
      /\ Last(hist.log) = "flip"
\* C8: the loop has ended exactly if a quit event has been received or the
\* game is over; every frame, the one of the quit event included, runs
\* game.update and ends with the flip; no frame starts once the flag is off.
C8_LoopExit ==
    [] C8_FrameComplete /\ [][running]_vars

\* The quit event arrived in a later frame than the first one.
C8_Witness ==
    /\ ~running
    /\ hist.quit
    /\ hist.elapsed > 0
    /\ Last(hist.log) = "flip"

\* C9 as stated: a brick collision callback adds the brick's value to the
\* score, and an off-screen callback costs a life.
C9_ScoreAndLives ==
    game.created =>
      /\ \A b \in AllBricks :
            hist.destroyed[b] > 0 => game.score >= bricks[b].value
      /\ hist.off_screen > 0 => game.lives < DEFAULT_LIVES

\* C10: a ball update resolves at most one collision, that with the object
\* registered first among those the ball overlaps; edges are registered
\* before the paddle and the paddle before the bricks; at most one brick
\* callback runs per frame.
Rank(o) == CASE o.kind = "edge" -> 1 [] o.kind = "paddle" -> 2 [] OTHER -> 3
C10_OneCollision ==
    game.created =>
      /\ Len(hist.resolved) <= 1
      /\ Len(hist.callbacks) <= 1
      /\ hist.overlapped # << >> => hist.resolved = << hist.overlapped[1] >>
      /\ hist.overlapped = << >> => hist.resolved = << >>
      /\ \A i, k \in DOMAIN hist.overlapped :
            i < k => Rank(hist.overlapped[i]) <= Rank(hist.overlapped[k])
      /\ \A i, k \in DOMAIN ball.registry :
            i < k => Rank(ball.registry[i].obj) <= Rank(ball.registry[k].obj)

\* The ball overlapped an edge and a brick, and the edge was resolved.
C10_Witness ==
    /\ Len(hist.overlapped) >= 2
    /\ hist.overlapped[1].kind = "edge"
    /\ \E i \in DOMAIN hist.overlapped : hist.overlapped[i].kind = "brick"
    /\ hist.resolved = << hist.overlapped[1] >>
    /\ hist.callbacks = << >>

SpeedAdjustOf(o) ==
    CASE o.kind = "edge" -> WALL_SPEED_ADJUST
      [] o.kind = "brick" -> BRICK_SPEED_ADJUST
      [] OTHER -> 0
\* s2 is s moved toward the base speed by the normalisation rate, without
\* passing it.
TowardBase(s, s2) ==
    IF s >= BALL_BASE_SPEED
    THEN /\ BALL_BASE_SPEED <= s2 /\ s2 <= s
         /\ s2 = BALL_BASE_SPEED \/ s2 = s - BALL_SPEED_NORMALISATION_RATE
    ELSE /\ s <= s2 /\ s2 <= BALL_BASE_SPEED
         /\ s2 = BALL_BASE_SPEED \/ s2 = s + BALL_SPEED_NORMALISATION_RATE
Fresh ==
    [game |-> [created |-> FALSE, score |-> 0, lives |-> 0, over |-> FALSE],
     sequence |-> [set |-> FALSE, start_time |-> 0, restart |-> FALSE],
     paddle |-> PaddleNew,
     ball |-> BallNew([x |-> 0, y |-> 0]),
     round |-> RoundNew(0),
     bricks |-> [o \in AllBricks |-> BrickInit(o)],
     life_rects |-> << >>,
     hist |-> HistInit]

\* The next state holds the objects w; the clock and the loop's flag stay.
Becomes(w) ==
    /\ game' = w.game
    /\ sequence' = w.sequence
    /\ paddle' = w.paddle
    /\ ball' = w.ball
    /\ round' = w.round
    /\ bricks' = w.bricks
    /\ life_rects' = w.life_rects
    /\ hist' = w.hist
    /\ UNCHANGED << now, running >>

\* The number of calls followed.
MaxCalls == 4

\* A game has been constructed.
RegistryInit ==
    /\ now = 0
    /\ running = TRUE
    /\ \E w \in {GameNew(Fresh, 0)} :
          /\ game = w.game
          /\ sequence = w.sequence
          /\ paddle = w.paddle
          /\ ball = w.ball
          /\ round = w.round
          /\ bricks = w.bricks
          /\ life_rects = w.life_rects
          /\ hist = w.hist

\* Game.update replaces the round: the registry is cleared and re-populated.
RoundTransition ==
    /\ hist.frames < MaxCalls
    /\ round.no < MaxRounds
    /\ \E w \in {NewRound(FrameStart(World), round.no + 1)} :
          Becomes([w EXCEPT !.hist.frames = @ + 1])

\* Game._on_brick_collide is called with a brick.
BrickCallback(brick) ==
    /\ hist.frames < MaxCalls
    /\ \E w \in {OnBrickCollide(FrameStart(World), brick)} :
          Becomes([w EXCEPT !.hist.frames = @ + 1])

RegistryNext ==
    \/ RoundTransition
    \/ \E brick \in AllBricks : BrickCallback(brick)

RegistrySpec == RegistryInit /\ [][RegistryNext]_vars

\* A callback with a brick that is not registered leaves the registry as it
\* is and raises no error; one with a registered brick removes that brick's
\* entry and nothing else.
RemovalStep ==
    \A b \in AllBricks :
       hist'.callbacks = << b >> =>
          /\ ~hist'.error
          /\ ~Registered(b) => ball'.registry = ball.registry
          /\ Registered(b) =>
                ball'.registry = SelectSeq(ball.registry, LAMBDA e : e.obj # b)
\* C13: remove_collidable_object of an object that is not registered is a
\* no-op without an error, so a brick callback that runs after a round
\* transition has cleared the registry changes nothing in it and the calls
\* go on.
C13_RemoveAbsent ==
    [][RemovalStep]_vars

\* The callback ran for a brick of the replaced round, after the transition.
C13_Witness ==
    /\ round.no = 2
    /\ Len(hist.callbacks) = 1
    /\ hist.callbacks[1].round = 1
    /\ ~Registered(hist.callbacks[1])
    /\ Len(ball.registry) = NumEdges + 1 + NumBricks
    /\ ~hist.error

(***************************************************************************)
(* The bricks of a round on their own: collisions counted on a brick, and  *)
(* calls of its animate() and update() in any order.                       *)
(***************************************************************************)
\* The number of collisions counted on one brick, and the number of calls of
\* animate() on one brick, that are followed.
MaxHits == 3
MaxAnimations == 2

\* A collision is counted on the brick: collision_count is incremented.
BrickHit(o) ==
    /\ bricks[o].collision_count < MaxHits
    /\ Becomes([World EXCEPT !.bricks[o].collision_count = @ + 1,
                             !.hist.hits[o] = Sat(@ + 1)])

\* brick.animate() is called.  The images shown are recorded from a call
\* that is made while no animation is running.
AnimateCall(o) ==
    /\ hist.animations[o] < MaxAnimations
    /\ Becomes([World EXCEPT
          !.bricks[o] = BrickAnimate(@),
          !.hist.animations[o] = @ + 1,
          !.hist.shown[o] = IF bricks[o].animate = "True" THEN @ ELSE << >>])

\* brick.update() is called.
UpdateCall(o) ==
    \E b \in {BrickUpdate(bricks[o])} :
       Becomes([World EXCEPT
          !.bricks[o] = b,
          !.hist.shown[o] = IF b.animation # bricks[o].animation /\ b.animate = "True"
                            THEN Append(@, b.image) ELSE @])

BrickNext ==
    \E i \in 1..NumBricks :
       \/ BrickHit(RoundBricks(round.no)[i])
       \/ AnimateCall(RoundBricks(round.no)[i])
       \/ UpdateCall(RoundBricks(round.no)[i])

BrickSpec == RegistryInit /\ [][BrickNext]_vars

\* A brick is visible exactly while fewer collisions than destroy_after have
\* been counted on it: a new brick is visible, one with destroy_after
\* collisions or more is not.
VisibleIsDerived ==
    \A b \in AllBricks :
       /\ BrickVisible(bricks[b]) <=>
             bricks[b].collision_count < bricks[b].destroy_after
       /\ bricks[b].destroy_after >= 1
       /\ bricks[b].collision_count = 0 => BrickVisible(bricks[b])
       /\ bricks[b].collision_count >= bricks[b].destroy_after =>
             ~BrickVisible(bricks[b])
\* C14: visibility is derived from the two counts in every state, and
\* an invisible brick stays invisible whatever collisions follow.
C14_VisibleDerived ==
    /\ [] VisibleIsDerived
    /\ [][\A b \in AllBricks :
             ~BrickVisible(bricks[b]) => ~BrickVisible(bricks'[b])]_vars

\* A brick with destroy_after = 2 after a third collision.
C14_Witness ==
    \E b \in AllBricks :
       /\ bricks[b].destroy_after = 2
       /\ bricks[b].collision_count = 3
       /\ ~BrickVisible(bricks[b])

\* C20 as stated: every animation that animate() triggered and that has
\* ended has shown the whole image sequence, the brick's own image last,
\* the second and later ones included.
C20_EveryAnimationFull ==
    \A b \in AllBricks :
       (hist.animations[b] > 0 /\ bricks[b].animate = "None") =>
          /\ hist.shown[b] = ImageSequence
          /\ bricks[b].image = 0

\* C15 as stated: a frame in which Game.update delegates to the sequence
\* runs neither the event handling nor the updates of the paddle and the
\* ball, so the paddle is where and as it was constructed.
C15_SequenceOverrides ==
    (game.created /\ \E i \in DOMAIN hist.log : hist.log[i] = "sequence.update") =>
       /\ \A i \in DOMAIN hist.log :
             hist.log[i] \notin {"handle_events", "paddle.update", "ball.update"}
       /\ paddle.dir = 0
       /\ paddle.x = PaddleStartX

\* While the sequence is set the ball is anchored to the paddle at
\* (paddle_width // 2, -paddle_height) and sits there after every frame, and
\* paddle and ball are visible exactly if the sequence's update has read an
\* elapsed time past the sprites threshold.
AnchoredAndHidden ==
    (game.created /\ sequence.set) =>
       /\ ball.anchor = [set |-> TRUE, dx |-> PaddleSize.w \div 2,
                         dy |-> 0 - PaddleSize.h]
       /\ ball.x = paddle.x + PaddleSize.w \div 2
       /\ ball.y = PaddleRow - PaddleSize.h
       /\ hist.reads # << >>
       /\ paddle.visible <=> hist.reads[3] > SPRITES_AFTER
       /\ ball.visible <=> hist.reads[3] > SPRITES_AFTER
\* C16: from its construction to its terminal update the sequence keeps the
\* ball anchored to the paddle at that offset; paddle and ball are hidden
\* from the construction until the first update past the sprites threshold,
\* and once visible they are not hidden again.
C16_AnchoredUntilRelease ==
    /\ [] AnchoredAndHidden
    /\ [][game.created =>
            /\ paddle.visible => paddle'.visible
            /\ ball.visible => ball'.visible]_vars

\* The sprites are visible, the sequence is still set, and the anchored ball
\* has followed the paddle away from where it was constructed.
C16_Witness ==
    /\ game.created
    /\ sequence.set
    /\ paddle.visible
    /\ ball.visible
    /\ paddle.x # PaddleStartX
    /\ ball.x = paddle.x + PaddleSize.w \div 2

\* C17: after every frame Game._life_rects holds max(lives - 1, 0)
\* rectangles, those of the icons drawn in that frame, however many frames
\* have run.
C17_LifeIcons ==
    game.created =>
      /\ Len(life_rects) = Max(game.lives - 1, 0)
      /\ \A i \in DOMAIN life_rects : life_rects[i] = LifeRect(i)

\* Several frames of play have run and there are still lives - 1 icons.
C17_Witness ==
    /\ game.created
    /\ hist.frames >= 3
    /\ game.lives = DEFAULT_LIVES
    /\ Len(life_rects) = DEFAULT_LIVES - 1

\* Lives and the over flag are as Game.__init__ set them, and the loop has
\* only ended if a quit event was received.
LivesAndOverAsConstructed ==
    game.created =>
      /\ game.lives = DEFAULT_LIVES
      /\ ~game.over
      /\ ~running => hist.quit
      /\ ~hist.error
MaxKeyFrames == 3

\* _handle_events with the frame's event list, then paddle.update.
KeyFrame(events) ==
    /\ hist.frames < MaxKeyFrames
    /\ \E w \in {HandleEvents(FrameStart(World), events)} :
          Becomes([w EXCEPT
             !.paddle = PaddleUpdate(@),
             !.hist.handled = events,
             !.hist.frames = @ + 1])

PaddleNext == \E events \in EventLists : KeyFrame(events)

PaddleSpec == RegistryInit /\ [][PaddleNext]_vars

\* The keyboard events of an event list.
KeysOf(events) == SelectSeq(events, LAMBDA e : e # "QUIT")
\* After a frame with keyboard events the paddle's movement is that of the
\* last of them: moving left after a key-down of LEFT, moving right after a
\* key-down of RIGHT, stopped after a key-up of either key.
LastKeyDecides ==
    KeysOf(hist.handled) # << >> =>
       LET last == Last(KeysOf(hist.handled))
       IN /\ last = "KEYDOWN_LEFT" => paddle.dir = -1
          /\ last = "KEYDOWN_RIGHT" => paddle.dir = 1
          /\ last \in {"KEYUP_LEFT", "KEYUP_RIGHT"} => paddle.dir = 0
\* C19: the keyboard events of a frame are applied in their order, a key-up
\* of either arrow key stops the paddle whichever way it was moving, the
\* last keyboard event of a frame decides the paddle's movement, and a frame
\* without keyboard events leaves it as it was.
C19_LastEventDecides ==
    /\ [] LastKeyDecides
    /\ [][KeysOf(hist'.handled) = << >> => paddle'.dir = paddle.dir]_vars

\* RIGHT was pressed while the paddle moved left and then LEFT was released:
\* the paddle is stopped although RIGHT is still held.
C19_Witness ==
    /\ hist.handled = << "KEYDOWN_RIGHT", "KEYUP_LEFT" >>
    /\ hist.frames >= 2
    /\ paddle.dir = 0
    /\ paddle.x # PaddleStartX
====
